---- MODULE Spec2Model ----
(***************************************************************************)
(* Model of the DashRx quote-request backend: the express middleware chain *)
(* of server/server.js (health route, general API limiter, quote limiter,  *)
(* quote handler, 404 handler), the payload validator and spam heuristics  *)
(* of server/validators.js, and the mailer of server/mailer.js.            *)
(*                                                                         *)
(* JavaScript strings are sequences of one-character strings; a JavaScript *)
(* value is a tagged record (undefined, string or number).                 *)
(***************************************************************************)
EXTENDS Integers, Sequences, FiniteSets, TLC

(***************************************************************************)
(* Characters and strings                                                  *)
(***************************************************************************)
\* a function on 1..n as a sequence (TLC then computes each element once)
AsSeq(f) == f \o <<>>

Chars(str) == AsSeq([i \in 1..Len(str) |-> SubSeq(str, i, i)])

Digits == {"0", "1", "2", "3", "4", "5", "6", "7", "8", "9"}

LowerLetters == {"a", "b", "c", "d", "e", "f", "g", "h", "i", "j", "k", "l", "m",
                 "n", "o", "p", "q", "r", "s", "t", "u", "v", "w", "x", "y", "z"}

UpperLetters == {"A", "B", "C", "D", "E", "F", "G", "H", "I", "J", "K", "L", "M",
                 "N", "O", "P", "Q", "R", "S", "T", "U", "V", "W", "X", "Y", "Z"}

AlphaNum == Digits \cup LowerLetters \cup UpperLetters

\* \w of a JavaScript regular expression
WordChars == AlphaNum \cup {"_"}

\* \s of a JavaScript regular expression, also what String.prototype.trim removes
WhiteSpace == {" ", "\t", "\n", "\r"}

\* what "." of a JavaScript regular expression does not match
LineTerminators == {"\n", "\r"}

LowerOf == "A" :> "a" @@ "B" :> "b" @@ "C" :> "c" @@ "D" :> "d" @@ "E" :> "e" @@
           "F" :> "f" @@ "G" :> "g" @@ "H" :> "h" @@ "I" :> "i" @@ "J" :> "j" @@
           "K" :> "k" @@ "L" :> "l" @@ "M" :> "m" @@ "N" :> "n" @@ "O" :> "o" @@
           "P" :> "p" @@ "Q" :> "q" @@ "R" :> "r" @@ "S" :> "s" @@ "T" :> "t" @@
           "U" :> "u" @@ "V" :> "v" @@ "W" :> "w" @@ "X" :> "x" @@ "Y" :> "y" @@
           "Z" :> "z"

\* characters that cannot be written in a string literal here; each of these
\* names stands for one character
Backtick == "backtick"

EnDash == "endash"

EmDash == "emdash"

\* String.prototype.toLowerCase
toLowerCase(s) ==
  AsSeq([i \in 1..Len(s) |-> IF s[i] \in UpperLetters THEN LowerOf[s[i]] ELSE s[i]])

\* String.prototype.trim
trim(s) ==
  IF \A i \in 1..Len(s) : s[i] \in WhiteSpace
  THEN <<>>
  ELSE LET first == CHOOSE i \in 1..Len(s) :
                      s[i] \notin WhiteSpace /\ \A j \in 1..(i - 1) : s[j] \in WhiteSpace
           last  == CHOOSE i \in 1..Len(s) :
                      s[i] \notin WhiteSpace /\ \A j \in (i + 1)..Len(s) : s[j] \in WhiteSpace
       IN SubSeq(s, first, last)

\* pat occurs in s at position i
MatchAt(s, i, pat) ==
  /\ i >= 1
  /\ i + Len(pat) - 1 <= Len(s)
  /\ \A k \in 1..Len(pat) : s[i + k - 1] = pat[k]

\* String.prototype.includes
includes(s, pat) == \E i \in 1..(Len(s) - Len(pat) + 1) : MatchAt(s, i, pat)

\* String.prototype.startsWith
startsWith(s, pat) == MatchAt(s, 1, pat)

\* the elements of s whose index is in keep, in order
KeepIndices(s, keep) ==
  LET tagged == AsSeq([i \in 1..Len(s) |-> <<s[i], i \in keep>>])
      kept   == SelectSeq(tagged, LAMBDA p : p[2])
  IN AsSeq([i \in 1..Len(kept) |-> kept[i][1]])

(***************************************************************************)
(* JavaScript values as they arrive in a parsed request body               *)
(***************************************************************************)
JUndef == [t |-> "undef", s |-> <<>>, n |-> 0]

JStr(str) == [t |-> "str", s |-> Chars(str), n |-> 0]

JSeq(seq) == [t |-> "str", s |-> seq, n |-> 0]

JNum(num) == [t |-> "num", s |-> <<>>, n |-> num]

\* typeof v === 'string'
IsString(v) == v.t = "str"

\* truthiness: undefined, the empty string and 0 are falsy
Truthy(v) ==
  CASE v.t = "undef" -> FALSE
    [] v.t = "str"   -> v.s # <<>>
    [] v.t = "num"   -> v.n # 0


(***************************************************************************)
(* Field validators (server/validators.js)                                 *)
(***************************************************************************)
\* the local-part character class of emailRegex
EmailLocalChars == AlphaNum \cup {".", "!", "#", "$", "%", "&", "'", "*", "+", "/",
                                  "=", "?", "^", "_", Backtick, "{", "|", "}", "~", "-"}

MaxEmailLength == 254

MaxLabelLength == 63

\* the domain part of emailRegex: labels of 1..63 characters separated by
\* dots, each starting and ending with an alphanumeric character
EmailDomainMatches(d) ==
  /\ Len(d) >= 1
  /\ \A i \in 1..Len(d) : d[i] \in AlphaNum \cup {"-", "."}
  /\ d[1] \in AlphaNum
  /\ d[Len(d)] \in AlphaNum
  /\ \A i \in 1..Len(d) : d[i] = "." => (d[i - 1] \in AlphaNum /\ d[i + 1] \in AlphaNum)
  /\ \A i \in 1..(Len(d) - MaxLabelLength) :
        \E k \in i..(i + MaxLabelLength) : d[k] = "."

\* emailRegex.test(s)
EmailRegexMatches(s) ==
  \E a \in 2..(Len(s) - 1) :
     /\ s[a] = "@"
     /\ \A i \in 1..(a - 1) : s[i] \in EmailLocalChars
     /\ EmailDomainMatches(SubSeq(s, a + 1, Len(s)))

\* isValidEmail without the cap on the whole length
isValidEmailAnyLength(email) ==
  IF ~Truthy(email) \/ ~IsString(email)
  THEN FALSE
  ELSE EmailRegexMatches(email.s)

isValidEmail(email) ==
  IF ~Truthy(email) \/ ~IsString(email)
  THEN FALSE
  ELSE EmailRegexMatches(email.s) /\ Len(email.s) <= MaxEmailLength

\* phone.replace(/\D/g, '')
DigitsOf(s) == SelectSeq(s, LAMBDA c : c \in Digits)

NanpLeading == {"2", "3", "4", "5", "6", "7", "8", "9"}

\* isValidPhoneUS if the patterns constrained the area code only
isValidPhoneUSAreaOnly(phone) ==
  IF ~Truthy(phone) \/ ~IsString(phone)
  THEN FALSE
  ELSE LET digits == DigitsOf(phone.s)
       IN IF Len(digits) = 10
          THEN digits[1] \in NanpLeading
          ELSE IF Len(digits) = 11 /\ digits[1] = "1"
               THEN digits[2] \in NanpLeading
               ELSE FALSE

isValidPhoneUS(phone) ==
  IF ~Truthy(phone) \/ ~IsString(phone)
  THEN FALSE
  ELSE LET digits == DigitsOf(phone.s)
       IN IF Len(digits) = 10
          THEN digits[1] \in NanpLeading /\ digits[4] \in NanpLeading
          ELSE IF Len(digits) = 11 /\ digits[1] = "1"
               THEN digits[2] \in NanpLeading /\ digits[5] \in NanpLeading
               ELSE FALSE

\* the positions of character c in s
PositionsOf(s, c) == {i \in 1..Len(s) : s[i] = c}

\* StripTags without the g flag: only the first tag is removed
StripTagsFirst(s) ==
  LET lts == PositionsOf(s, "<")
      gts == PositionsOf(s, ">")
      opens == {j \in lts : \E k \in gts : k > j}
      first == CHOOSE j \in opens : \A m \in opens : j <= m
      close == CHOOSE k \in gts : k > first /\ \A m \in gts : m > first => k <= m
  IN IF opens = {} THEN s
     ELSE KeepIndices(s, {i \in 1..Len(s) : i < first \/ i > close})

\* s.replace(/<[^>]*>/g, ''): a tag runs from the first "<" after the
\* previous ">" to the next ">"
StripTags(s) ==
  LET lts == PositionsOf(s, "<")
      gts == PositionsOf(s, ">")
      removed(i) == /\ \E k \in gts : k >= i
                    /\ \E j \in lts : j <= i /\ \A m \in gts : ~(j <= m /\ m < i)
  IN IF lts = {} \/ gts = {} THEN s ELSE KeepIndices(s, {i \in 1..Len(s) : ~removed(i)})

\* s.replace(/&[^;]+;/g, ''): an entity runs from the first "&" after the
\* previous ";" to the next ";", with at least one character in between
StripEntities(s) ==
  LET amps  == PositionsOf(s, "&")
      semis == PositionsOf(s, ";")
      removed(i) == \E k \in semis :
                       /\ k >= i
                       /\ \A m \in semis : ~(i <= m /\ m < k)
                       /\ \E p \in amps : /\ p <= i
                                          /\ p <= k - 2
                                          /\ \A m \in semis : ~(p <= m /\ m < i)
  IN IF amps = {} \/ semis = {} THEN s ELSE KeepIndices(s, {i \in 1..Len(s) : ~removed(i)})

sanitizeText(text) ==
  IF ~Truthy(text) \/ ~IsString(text)
  THEN <<>>
  ELSE trim(StripEntities(StripTags(text.s)))

(***************************************************************************)
(* Volume normalizer (server/validators.js)                                *)
(***************************************************************************)
\* a || b
JOr(a, b) == IF Truthy(a) THEN a ELSE b

DigitChar == [d \in 0..9 |-> Chars("0123456789")[d + 1]]

RECURSIVE NatToChars(_)
NatToChars(n) == IF n < 10 THEN <<DigitChar[n]>>
                 ELSE Append(NatToChars(n \div 10), DigitChar[n % 10])

\* String(val)
String(val) ==
  CASE val.t = "str"   -> val.s
    [] val.t = "num"   -> IF val.n < 0 THEN <<"-">> \o NatToChars(0 - val.n)
                          ELSE NatToChars(val.n)
    [] val.t = "undef" -> Chars("undefined")

\* the first position at or after i that holds no whitespace
SkipSpaces(s, i) ==
  IF \A k \in i..Len(s) : s[k] \in WhiteSpace
  THEN Len(s) + 1
  ELSE CHOOSE k \in i..Len(s) :
         s[k] \notin WhiteSpace /\ \A m \in i..(k - 1) : s[m] \in WhiteSpace

\* MatchesSpaced if every gap had to hold a whitespace character
MatchesSpacedStrict(s, p1, p2, p3, min) ==
  LET a == 1 + Len(p1)
      b == SkipSpaces(s, a)
      c == b + Len(p2)
      d == SkipSpaces(s, c)
  IN /\ MatchAt(s, 1, p1)
     /\ b - a >= 1
     /\ MatchAt(s, b, p2)
     /\ d - c >= 1
     /\ MatchAt(s, d, p3)
     /\ d + Len(p3) - 1 = Len(s)

\* /^p1\s{min,}p2\s{min,}p3$/ on an already lower-cased s
MatchesSpaced(s, p1, p2, p3, min) ==
  LET a == 1 + Len(p1)
      b == SkipSpaces(s, a)
      c == b + Len(p2)
      d == SkipSpaces(s, c)
  IN /\ MatchAt(s, 1, p1)
     /\ b - a >= min
     /\ MatchAt(s, b, p2)
     /\ d - c >= min
     /\ MatchAt(s, d, p3)
     /\ d + Len(p3) - 1 = Len(s)

VolumeLt25 == [token |-> Chars("lt25"), display |-> Chars("Less than 25")]

Volume25to125 == [token |-> Chars("25to125"), display |-> Chars("25 to 125")]

VolumeGt125 == [token |-> Chars("gt125"), display |-> Chars("More than 125")]

normalizeWeeklyScripts(val) ==
  IF ~Truthy(val)
  THEN VolumeLt25
  ELSE LET v     == trim(String(val))
           clean == toLowerCase(AsSeq([i \in 1..Len(v) |->
                                   IF v[i] \in {EnDash, EmDash} THEN "-" ELSE v[i]]))
       \* the three patterns carry the i flag: clean is compared lower-cased
       IN CASE v = Chars("lt25")    -> VolumeLt25
            [] v = Chars("25to125") -> Volume25to125
            [] v = Chars("gt125")   -> VolumeGt125
            [] OTHER ->
                 IF MatchesSpaced(clean, Chars("less"), Chars("than"), Chars("25"), 1)
                 THEN VolumeLt25
                 ELSE IF \/ MatchesSpaced(clean, Chars("25"), Chars("-"), Chars("125"), 0)
                         \/ MatchesSpaced(clean, Chars("25"), Chars("to"), Chars("125"), 0)
                      THEN Volume25to125
                      ELSE IF MatchesSpaced(clean, Chars("more"), Chars("than"), Chars("125"), 1)
                           THEN VolumeGt125
                           ELSE VolumeLt25

(***************************************************************************)
(* Payload validator and spam heuristics (server/validators.js)            *)
(***************************************************************************)
MaxMessageLength == 2000

MinSpamHoneypotLength == 10

allowedAutofillValues ==
  {Chars("http://"), Chars("https://"), Chars("www."), Chars("example.com"),
   Chars("test.com"), Chars("localhost"), Chars("projectjannahyemen")}

\* isLikelyAutofill if the value had to equal an allow-listed one
isLikelyAutofillExact(honeypotValue) ==
  \/ \E allowed \in allowedAutofillValues :
        toLowerCase(honeypotValue) = toLowerCase(allowed)
  \/ Len(honeypotValue) < MinSpamHoneypotLength

\* isLikelyAutofill of validateQuotePayload, on the trimmed honeypot value
isLikelyAutofill(honeypotValue) ==
  \/ \E allowed \in allowedAutofillValues :
        includes(toLowerCase(honeypotValue), toLowerCase(allowed))
  \/ Len(honeypotValue) < MinSpamHoneypotLength

\* RequiredFieldErrors if validation stopped at the first failing field
RequiredFieldErrorsFirstOnly(payload) ==
  IF ~Truthy(payload.pharmacy_name) \/ sanitizeText(payload.pharmacy_name) = <<>>
  THEN <<"Pharmacy name is required">>
  ELSE IF ~Truthy(payload.contact_person) \/ sanitizeText(payload.contact_person) = <<>>
  THEN <<"Contact person is required">>
  ELSE IF ~Truthy(payload.phone) \/ ~isValidPhoneUS(payload.phone)
  THEN <<"Valid US phone number is required">>
  ELSE IF ~Truthy(payload.email) \/ ~isValidEmail(payload.email)
  THEN <<"Valid email address is required">>
  ELSE <<>>

\* the four required-field checks, each appending at most one error
RequiredFieldErrors(payload) ==
  (IF ~Truthy(payload.pharmacy_name) \/ sanitizeText(payload.pharmacy_name) = <<>>
   THEN <<"Pharmacy name is required">> ELSE <<>>)
  \o (IF ~Truthy(payload.contact_person) \/ sanitizeText(payload.contact_person) = <<>>
      THEN <<"Contact person is required">> ELSE <<>>)
  \o (IF ~Truthy(payload.phone) \/ ~isValidPhoneUS(payload.phone)
      THEN <<"Valid US phone number is required">> ELSE <<>>)
  \o (IF ~Truthy(payload.email) \/ ~isValidEmail(payload.email)
      THEN <<"Valid email address is required">> ELSE <<>>)

\* MessageTooLong if the limit itself were already too long
MessageTooLongInclusive(payload) ==
  /\ Truthy(payload.message)
  /\ IsString(payload.message)
  /\ Len(payload.message.s) >= MaxMessageLength

\* payload.message && payload.message.length > 2000 (a number has no length)
MessageTooLong(payload) ==
  /\ Truthy(payload.message)
  /\ IsString(payload.message)
  /\ Len(payload.message.s) > MaxMessageLength

\* payload.company_website.trim() throws a TypeError on a truthy non-string
HoneypotThrows(payload) ==
  Truthy(payload.company_website) /\ ~IsString(payload.company_website)

HoneypotErrors(payload) ==
  IF Truthy(payload.company_website) /\ trim(payload.company_website.s) # <<>>
  THEN IF ~isLikelyAutofill(trim(payload.company_website.s))
       THEN <<"Spam detection triggered">>
       ELSE <<>>
  ELSE <<>>

NoSanitized ==
  [pharmacy_name |-> <<>>, contact_person |-> <<>>, phone |-> <<>>, email |-> <<>>,
   address |-> <<>>, city |-> <<>>, state |-> <<>>, weekly_scripts |-> <<>>,
   weekly_scripts_display |-> <<>>, message |-> <<>>, company_website |-> <<>>]

\* the result when validateQuotePayload does not return
ValidationThrew ==
  [threw |-> TRUE, valid |-> FALSE, errors |-> <<>>, sanitized |-> NoSanitized]

validateQuotePayload(payload) ==
  IF HoneypotThrows(payload)
  THEN ValidationThrew
  ELSE
    LET scriptsNorm == normalizeWeeklyScripts(
                         JOr(payload.weekly_scripts, payload.weekly_scripts_display))
        errors == RequiredFieldErrors(payload)
                  \o (IF scriptsNorm.token = <<>>
                      THEN <<"Invalid weekly delivery volume selected">> ELSE <<>>)
                  \o (IF MessageTooLong(payload)
                      THEN <<"Message must be 2000 characters or less">> ELSE <<>>)
                  \o HoneypotErrors(payload)
        sanitized ==
          [pharmacy_name          |-> sanitizeText(payload.pharmacy_name),
           contact_person         |-> sanitizeText(payload.contact_person),
           phone                  |-> sanitizeText(payload.phone),
           email                  |-> sanitizeText(payload.email),
           address                |-> sanitizeText(JOr(payload.address, JStr(""))),
           city                   |-> sanitizeText(JOr(payload.city, JStr(""))),
           state                  |-> sanitizeText(JOr(payload.state, JStr(""))),
           weekly_scripts         |-> scriptsNorm.token,
           weekly_scripts_display |-> scriptsNorm.display,
           message                |-> sanitizeText(JOr(payload.message, JStr(""))),
           company_website        |-> sanitizeText(JOr(payload.company_website, JStr("")))]
    IN [threw |-> FALSE, valid |-> errors = <<>>, errors |-> errors,
        sanitized |-> sanitized]

\* a match of /https?:\/\/[^\s]+/ starts at position i
LinkStartsAt(s, i) ==
  \/ MatchAt(s, i, Chars("http://"))  /\ i + 7 <= Len(s) /\ s[i + 7] \notin WhiteSpace
  \/ MatchAt(s, i, Chars("https://")) /\ i + 8 <= Len(s) /\ s[i + 8] \notin WhiteSpace

\* the number of matches of /https?:\/\/[^\s]+/g: a match runs to the next
\* whitespace, so a link start inside an earlier match is not counted
linkCount(s) ==
  LET starts == {i \in PositionsOf(s, "h") : LinkStartsAt(s, i)}
  IN Cardinality({i \in starts :
                    ~\E j \in starts :
                        j < i /\ \A m \in j..(i - 1) : s[m] \notin WhiteSpace})

SpamWords == {Chars("viagra"), Chars("cialis"), Chars("casino"), Chars("lottery"),
              Chars("winner"), Chars("congratulations")}

\* /\b(?:viagra|cialis|casino|lottery|winner|congratulations)\b/i
HasSpamWord(s) ==
  \E w \in SpamWords :
    \E i \in PositionsOf(s, w[1]) :
       /\ MatchAt(s, i, w)
       /\ (i = 1 \/ s[i - 1] \notin WordChars)
       /\ (i + Len(w) - 1 = Len(s) \/ s[i + Len(w)] \notin WordChars)

\* /\$\d+.*(?:million|thousand)/i
HasMoneyAmount(s) ==
  \E i \in PositionsOf(s, "$") :
     /\ i + 1 <= Len(s)
     /\ s[i + 1] \in Digits
     /\ \E k \in (i + 2)..Len(s) :
          /\ MatchAt(s, k, Chars("million")) \/ MatchAt(s, k, Chars("thousand"))
          /\ \A m \in (i + 2)..(k - 1) : s[m] \notin LineTerminators

\* /click here/i
HasClickHere(s) == includes(s, Chars("click here"))

MaxLinks == 2

detectSpam(payload) ==
  LET messageText == toLowerCase(payload.message)
  IN (IF linkCount(payload.message) > MaxLinks
      THEN <<"Too many links in message">> ELSE <<>>)
     \o (IF HasSpamWord(messageText) THEN <<"Suspicious content detected">> ELSE <<>>)
     \o (IF HasMoneyAmount(messageText) THEN <<"Suspicious content detected">> ELSE <<>>)
     \o (IF HasClickHere(messageText) THEN <<"Suspicious content detected">> ELSE <<>>)

(***************************************************************************)
(* Request bodies                                                          *)
(***************************************************************************)
\* a parsed body with no keys
EmptyBody ==
  [pharmacy_name |-> JUndef, contact_person |-> JUndef, phone |-> JUndef,
   email |-> JUndef, address |-> JUndef, city |-> JUndef, state |-> JUndef,
   weekly_scripts |-> JUndef, weekly_scripts_display |-> JUndef,
   monthly_scripts |-> JUndef, message |-> JUndef, company_website |-> JUndef,
   submission_time |-> JUndef]

BodyFields == DOMAIN EmptyBody

\* the payload of the test "Valid quote submission succeeds"
ValidBody ==
  [EmptyBody EXCEPT
     !.pharmacy_name   = JStr("Test Pharmacy"),
     !.contact_person  = JStr("John Doe"),
     !.phone           = JStr("(313) 333-2133"),
     !.email           = JStr("test@testpharmacy.com"),
     !.address         = JStr("123 Main St, Detroit, MI 48201"),
     !.message         = JStr("We are interested in your delivery services."),
     !.company_website = JStr("")]

Repeat(c, n) == AsSeq([i \in 1..n |-> c])

Payloads ==
  << ValidBody,
     [ValidBody EXCEPT !.pharmacy_name = JStr("")],
     [ValidBody EXCEPT !.email = JStr("invalid-email-format")],
     [ValidBody EXCEPT !.phone = JStr("123")],
     [ValidBody EXCEPT !.message = JSeq(Repeat("a", MaxMessageLength + 1))],
     [ValidBody EXCEPT !.message = JSeq(Repeat("a", MaxMessageLength))],
     [ValidBody EXCEPT !.company_website = JStr("https://")],
     [ValidBody EXCEPT !.company_website = JStr("https://spam-site.com"),
                       !.message = JStr("This is spam")],
     [ValidBody EXCEPT !.company_website = JStr("buy-cheap-pills-now")],
     [ValidBody EXCEPT !.company_website = JNum(123)],
     [ValidBody EXCEPT !.company_website = JStr("   ")],
     [ValidBody EXCEPT !.message = JStr("Please CLICK HERE for our offer")],
     [ValidBody EXCEPT !.message =
        JStr("see http://a.example http://b.example https://c.example")],
     [ValidBody EXCEPT !.message = JStr("<script>alert(1)</script>")],
     [ValidBody EXCEPT !.pharmacy_name = JUndef, !.company_website = JNum(123)],
     [ValidBody EXCEPT !.pharmacy_name = JUndef,
                       !.company_website = JStr("buy-cheap-pills-now")],
     [EmptyBody EXCEPT !.address = JStr("123 Main St")],
     [ValidBody EXCEPT !.message = JStr("You are a lottery winner")],
     [ValidBody EXCEPT !.message = JStr("Claim $5 million today")],
     [ValidBody EXCEPT !.monthly_scripts = JSeq(Chars("100") \o <<EnDash>> \o Chars("500"))],
     [ValidBody EXCEPT !.contact_person = JStr("<b></b>"), !.email = JUndef],
     [ValidBody EXCEPT !.company_website = JStr("abc")],
     EmptyBody,
     [ValidBody EXCEPT !.weekly_scripts = JStr("25to125")] >>

PayloadIds == 1..Len(Payloads)

\* how a request fills submission_time: left out, 0, a text that is no
\* number, or the client's clock reading a given number of milliseconds ago
SubmissionKinds ==
  {[k |-> "absent", age |-> 0], [k |-> "zero", age |-> 0], [k |-> "empty", age |-> 0],
   [k |-> "text", age |-> 0],
   [k |-> "ago", age |-> 3000], [k |-> "ago", age |-> 2000],
   [k |-> "ago", age |-> 1999], [k |-> "ago", age |-> 500]}

SubmissionTime(kind, tnow) ==
  CASE kind.k = "absent" -> JUndef
    [] kind.k = "zero"   -> JNum(0)
    [] kind.k = "empty"  -> JStr("")
    [] kind.k = "text"   -> JStr("soon")
    [] kind.k = "ago"    -> JNum(tnow - kind.age)

\* the body of a request that sends payload pid at time tnow
RequestBody(pid, kind, tnow) ==
  [Payloads[pid] EXCEPT !.submission_time = SubmissionTime(kind, tnow)]

(***************************************************************************)
(* Rate limiting (server/rateLimit.js): express-rate-limit with its        *)
(* in-memory store, one counter and one reset time per client key          *)
(***************************************************************************)
\* RATE_LIMIT_WINDOW_MS and RATE_LIMIT_MAX_REQUESTS are left unset
apiLimiter ==
  [windowMs |-> 60000, max |-> 5,
   skipSuccessfulRequests |-> FALSE, skipFailedRequests |-> FALSE,
   message |-> "Too many requests from this IP. Please try again in a minute."]

\* quoteLimiter if failed requests were exempt from the count
quoteLimiterSkipFailed ==
  [windowMs |-> 60000, max |-> 3,
   skipSuccessfulRequests |-> FALSE, skipFailedRequests |-> TRUE,
   message |-> "Too many quote requests. Please wait a minute before submitting again."]

quoteLimiter ==
  [windowMs |-> 60000, max |-> 3,
   skipSuccessfulRequests |-> FALSE, skipFailedRequests |-> FALSE,
   message |-> "Too many quote requests. Please wait a minute before submitting again."]

\* HasWindow if a window, once begun, never ran out
HasWindowForever(store, key, tnow) == key \in DOMAIN store

\* the store has a live window for key at time tnow
HasWindow(store, key, tnow) == key \in DOMAIN store /\ store[key].resetTime > tnow

\* StoreIncrement if the update of the third request of a window were lost
StoreIncrementLost(store, key, tnow, windowMs) ==
  LET entry == IF key \in DOMAIN store /\ store[key].resetTime > tnow
               THEN [store[key] EXCEPT !.totalHits = IF @ = 2 THEN @ ELSE @ + 1]
               ELSE [totalHits |-> 1, resetTime |-> tnow + windowMs]
  IN [k \in DOMAIN store \cup {key} |-> IF k = key THEN entry ELSE store[k]]

\* store.increment(key): the entry is created on the first request of a
\* client and started afresh once its window has elapsed
StoreIncrement(store, key, tnow, windowMs) ==
  LET entry == IF HasWindow(store, key, tnow)
               THEN [store[key] EXCEPT !.totalHits = @ + 1]
               ELSE [totalHits |-> 1, resetTime |-> tnow + windowMs]
  IN [k \in DOMAIN store \cup {key} |-> IF k = key THEN entry ELSE store[k]]

\* store.decrement(key)
StoreDecrement(store, key) ==
  IF key \in DOMAIN store /\ store[key].totalHits > 0
  THEN [store EXCEPT ![key].totalHits = @ - 1]
  ELSE store

\* OverLimit if the request that reaches the maximum were rejected already
OverLimitEarly(limiter, totalHits) == totalHits >= limiter.max

\* the limiter rejects the request that brought the counter to totalHits
OverLimit(limiter, totalHits) == totalHits > limiter.max

\* the skip option of apiLimiter; inside the /api/ mount the url has lost
\* its /api prefix
SkippedUrls == {"/favicon.ico", "/robots.txt", "/sitemap.xml"}

apiLimiterSkips(url) == url \in SkippedUrls

\* when a response is finished the limiter gives the hit back if the
\* response is one its options say not to count
AfterResponse(limiter, store, key, status) ==
  IF \/ limiter.skipFailedRequests /\ status >= 400
     \/ limiter.skipSuccessfulRequests /\ status < 400
  THEN StoreDecrement(store, key)
  ELSE store

(***************************************************************************)
(* Responses                                                               *)
(***************************************************************************)
Response(status, success, error, message, hasDetails, details, contactInfo) ==
  [status |-> status, success |-> success, error |-> error, message |-> message,
   hasDetails |-> hasDetails, details |-> details, contactInfo |-> contactInfo]

NoResponse == Response(0, "absent", "", "", FALSE, <<>>, FALSE)

HealthResponse == Response(200, "absent", "", "healthy", FALSE, <<>>, FALSE)

TooManyResponse(limiter) ==
  Response(429, "absent", limiter.message, "", FALSE, <<>>, FALSE)

EmptyBodyResponse ==
  Response(400, "false", "Request body is required", "", FALSE, <<>>, FALSE)

HoneypotResponse ==
  Response(400, "false", "Submission rejected", "", FALSE, <<>>, FALSE)

ValidationFailedResponse(errors) ==
  Response(400, "false", "Validation failed", "", TRUE, errors, FALSE)

SpamResponse ==
  Response(400, "false", "Submission rejected", "", TRUE,
           <<"Content appears to be spam">>, FALSE)

TooFastResponse ==
  Response(400, "false", "Please take your time filling out the form", "",
           FALSE, <<>>, FALSE)

SuccessResponse ==
  Response(200, "true", "", "Quote request submitted successfully", FALSE, <<>>, FALSE)

\* InternalErrorResponse if the catch block passed the exception on to the
\* client, as the handler of /api/test-email does
InternalErrorResponseEcho(error) ==
  Response(500, "false",
           "Internal server error. Please try again or contact us directly.", error,
           FALSE, <<>>, TRUE)

\* the catch block of the quote handler; error is the exception it caught
InternalErrorResponse(error) ==
  Response(500, "false",
           "Internal server error. Please try again or contact us directly.", "",
           FALSE, <<>>, TRUE)

\* NotFoundResponse if unmatched API paths fell through to the catch-all
\* route that serves index.html
NotFoundResponseIndex ==
  Response(200, "absent", "", "", FALSE, <<>>, FALSE)

NotFoundResponse ==
  Response(404, "false", "API endpoint not found", "", FALSE, <<>>, FALSE)

(***************************************************************************)
(* The quote handler up to the email send (server/server.js)               *)
(***************************************************************************)
NaN == [nan |-> TRUE, n |-> 0]

Number(n) == [nan |-> FALSE, n |-> n]

DigitValue(c) == CHOOSE d \in 0..9 : DigitChar[d] = c

RECURSIVE DigitsToNat(_)
DigitsToNat(ds) ==
  IF ds = <<>> THEN 0
  ELSE 10 * DigitsToNat(SubSeq(ds, 1, Len(ds) - 1)) + DigitValue(ds[Len(ds)])

\* parseInt(v): leading whitespace, an optional sign, then the leading digits
parseInt(v) ==
  IF v.t = "num" THEN Number(v.n)
  ELSE IF v.t = "undef" THEN NaN
  ELSE LET b     == SkipSpaces(v.s, 1)
           neg   == b <= Len(v.s) /\ v.s[b] = "-"
           signd == b <= Len(v.s) /\ v.s[b] \in {"-", "+"}
           d     == IF signd THEN b + 1 ELSE b
           e     == IF \A k \in d..Len(v.s) : v.s[k] \in Digits
                    THEN Len(v.s) + 1
                    ELSE CHOOSE k \in d..Len(v.s) :
                           v.s[k] \notin Digits /\ \A m \in d..(k - 1) : v.s[m] \in Digits
           mag   == DigitsToNat(SubSeq(v.s, d, e - 1))
       IN IF e = d THEN NaN ELSE Number(IF neg THEN 0 - mag ELSE mag)

\* new Date(t).toISOString() throws a RangeError on an invalid date (the
\* time values drawn here are all within the range of a Date)
toISOStringThrows(t) == t.nan

MinDwellMs == 2000

\* Object.keys(req.body).length === 0
BodyIsEmpty(body) == \A f \in DOMAIN body : body[f].t = "undef"

\* HoneypotHit if the safety net let short values pass as the validator does
HoneypotHitLong(body) ==
  /\ IsString(body.company_website)
  /\ Len(trim(body.company_website.s)) >= MinSpamHoneypotLength

\* the server safety net on the honeypot field
HoneypotHit(body) ==
  IsString(body.company_website) /\ trim(body.company_website.s) # <<>>

\* back-compat: monthly_scripts stands in for a missing weekly_scripts
WithBackCompat(body) ==
  IF Truthy(body.monthly_scripts) /\ ~Truthy(body.weekly_scripts)
  THEN [body EXCEPT !.weekly_scripts = body.monthly_scripts]
  ELSE body

NotRun == [threw |-> FALSE, valid |-> FALSE, errors |-> <<>>]

\* what the handler has done when it answers or reaches the email send
Stages(next, resp, ranValidator, validation, ranSpam, spam, ranDwell, timeDiff) ==
  [next |-> next, resp |-> resp,
   ranValidator |-> ranValidator,
   validation |-> [threw  |-> validation.threw, valid |-> validation.valid,
                   errors |-> validation.errors],
   ranSpam |-> ranSpam, spamIndicators |-> spam,
   ranDwell |-> ranDwell, timeDiff |-> timeDiff]

\* validateQuotePayload and detectSpam read neither submission_time nor the
\* clock, so their results on the body of payload pid are tabulated once
ValidationOf ==
  AsSeq([pid \in PayloadIds |-> validateQuotePayload(WithBackCompat(Payloads[pid]))])

SpamOf ==
  AsSeq([pid \in PayloadIds |->
     IF ValidationOf[pid].threw THEN <<>> ELSE detectSpam(ValidationOf[pid].sanitized)])

\* TooFast if the threshold were taken in seconds
TooFastSeconds(timeDiff) == timeDiff.n < MinDwellMs \div 1000

\* the dwell-time check: the form was submitted too soon after it was shown
TooFast(timeDiff) == timeDiff.n < MinDwellMs

\* the handler from the timing check on: parsed is parseInt(submissionTime)
\* and timeDiff is Date.now() - parsed
\* quoteHandlerTiming if the check ran whenever the field is present
quoteHandlerTimingIfPresent(validation, spamIndicators, submissionTime, parsed, timeDiff) ==
  IF submissionTime = JUndef
  THEN Stages("send", NoResponse, TRUE, validation, TRUE, spamIndicators, FALSE, NaN)
  ELSE IF toISOStringThrows(parsed)
  THEN Stages("respond", InternalErrorResponse("RangeError"),
              TRUE, validation, TRUE, spamIndicators, TRUE, timeDiff)
  ELSE IF TooFast(timeDiff)
  THEN Stages("respond", TooFastResponse,
              TRUE, validation, TRUE, spamIndicators, TRUE, timeDiff)
  ELSE Stages("send", NoResponse, TRUE, validation, TRUE, spamIndicators, TRUE, timeDiff)

quoteHandlerTiming(validation, spamIndicators, submissionTime, parsed, timeDiff) ==
  IF ~Truthy(submissionTime)
  THEN Stages("send", NoResponse, TRUE, validation, TRUE, spamIndicators, FALSE, NaN)
  ELSE IF toISOStringThrows(parsed)
  THEN Stages("respond", InternalErrorResponse("RangeError"),
              TRUE, validation, TRUE, spamIndicators, TRUE, timeDiff)
  ELSE IF TooFast(timeDiff)
  THEN Stages("respond", TooFastResponse,
              TRUE, validation, TRUE, spamIndicators, TRUE, timeDiff)
  ELSE Stages("send", NoResponse, TRUE, validation, TRUE, spamIndicators, TRUE, timeDiff)

\* ElapsedSince if the subtraction were written the other way round
ElapsedSinceReversed(parsed, tnow) == IF parsed.nan THEN NaN ELSE Number(parsed.n - tnow)

\* Date.now() - submissionTime
ElapsedSince(parsed, tnow) == IF parsed.nan THEN NaN ELSE Number(tnow - parsed.n)

\* the handler once validateQuotePayload has returned validation (or thrown)
\* and, for a valid body, detectSpam has returned spamIndicators
quoteHandlerValidated(body, tnow, validation, spamIndicators) ==
  IF validation.threw
  THEN Stages("respond", InternalErrorResponse("TypeError"),
              TRUE, validation, FALSE, <<>>, FALSE, NaN)
  ELSE IF ~validation.valid
  THEN Stages("respond", ValidationFailedResponse(validation.errors),
              TRUE, validation, FALSE, <<>>, FALSE, NaN)
  ELSE IF Len(spamIndicators) > 0
  THEN Stages("respond", SpamResponse, TRUE, validation, TRUE, spamIndicators, FALSE, NaN)
  ELSE quoteHandlerTiming(validation, spamIndicators, body.submission_time,
                          parseInt(body.submission_time),
                          ElapsedSince(parseInt(body.submission_time), tnow))

\* the synchronous part of the handler of POST /api/quote on the body of
\* payload pid: next is "respond" with the response to send, or "send" when
\* sendQuoteEmail is called
quoteHandler(pid, rawBody, tnow) ==
  IF BodyIsEmpty(rawBody)
  THEN Stages("respond", EmptyBodyResponse, FALSE, NotRun, FALSE, <<>>, FALSE, NaN)
  ELSE IF HoneypotHit(rawBody)
  THEN Stages("respond", HoneypotResponse, FALSE, NotRun, FALSE, <<>>, FALSE, NaN)
  ELSE quoteHandlerValidated(WithBackCompat(rawBody), tnow, ValidationOf[pid], SpamOf[pid])

(***************************************************************************)
(* The server as a state machine.  Node runs one request at a time until   *)
(* it answers or awaits the email send: running is the slot of the request *)
(* whose middleware is executing, 0 when the event loop is idle.           *)
(***************************************************************************)
NumClients == 2

MaxInFlight == 2

\* the clock advances in steps of TickMs milliseconds, MaxTicks times
TickMs == 30000

MaxTicks == 2

\* the number of requests of each workload explored
PipelineRequests == 2

BurstRequests == 7

MixedRequests == 3

Clients == 1..NumClients

Slots == 1..MaxInFlight

\* request urls below the /api/ mount: GET /health, POST /quote, a path with
\* no route, and a path the general limiter skips
Urls == {"/health", "/quote", "/nonexistent", "/favicon.ico"}

\* error messages the mail transport can fail with
TransportErrors == {"Invalid login: 535 bad credentials for dashrx10",
                    "connect ETIMEDOUT 142.250.0.108:465"}

NotInitialized == "Email transporter not initialized"

Absent == [k |-> "absent", age |-> 0]

\* the requests explored: every payload once the limiters are passed, every
\* submission time, one client sending quote requests in a burst and past
\* the end of its window, several clients on every url, and one client
\* sending a burst of requests on every url
Workloads ==
  {[name |-> "payloads", clients |-> {1}, urls |-> {"/quote"},
    pids |-> PayloadIds, kinds |-> {Absent},
    requests |-> PipelineRequests, ticks |-> 0],
   [name |-> "timing", clients |-> {1}, urls |-> {"/quote"},
    pids |-> {1, 3, 12}, kinds |-> SubmissionKinds,
    requests |-> PipelineRequests, ticks |-> 0],
   [name |-> "burst", clients |-> {1}, urls |-> {"/quote"},
    pids |-> {1, 7}, kinds |-> {Absent},
    requests |-> BurstRequests, ticks |-> MaxTicks],
   [name |-> "mixed", clients |-> Clients, urls |-> Urls,
    pids |-> {1}, kinds |-> {Absent},
    requests |-> MixedRequests, ticks |-> 0],
   [name |-> "probes", clients |-> {1}, urls |-> Urls,
    pids |-> {1}, kinds |-> {Absent},
    requests |-> BurstRequests, ticks |-> 0]}

\* the process environment: DRY_RUN, and whether initializeTransporter
\* managed to create the mail transporter
Environments ==
  {[DRY_RUN |-> TRUE,  transporter |-> TRUE],
   [DRY_RUN |-> FALSE, transporter |-> TRUE],
   [DRY_RUN |-> FALSE, transporter |-> FALSE]}

VARIABLES
  now,         \* Date.now()
  env,         \* the process environment
  workload,    \* the requests explored
  issued,      \* the number of requests received so far
  running,     \* the slot whose request is executing, or 0
  slot,        \* the requests in flight
  sent,        \* the request answered by the latest step, if it answered one
  apiStore,    \* the store of apiLimiter: client -> totalHits, resetTime
  quoteStore,  \* the store of quoteLimiter
  onlyQuote,   \* per client, whether all its requests so far were quote requests
  sentQuotes,  \* per client, the quote requests it sent in the 60 seconds
               \* that began with the first of them
  quoteWindow, \* per client, the requests that reached quoteLimiter in the
               \* 60 seconds that began with the first of them, and the
               \* statuses answered to those it let through
  spamAnswers, \* the responses given so far to submissions rejected as spam
  raw,         \* the submission handed to validateQuotePayload on its own
  checked      \* what validateQuotePayload returned for raw, once it has

vars == <<now, env, workload, issued, running, slot, sent, apiStore, quoteStore,
          onlyQuote, sentQuotes, quoteWindow, spamAnswers, raw, checked>>

NoStages == Stages("none", NoResponse, FALSE, NotRun, FALSE, <<>>, FALSE, NaN)

IdleRequest ==
  [pc |-> "idle", client |-> 0, url |-> "", ordinal |-> 0, pid |-> 0, kind |-> Absent,
   apiHits |-> 0, quoteHits |-> 0, window |-> 0, position |-> 0, after429 |-> FALSE,
   limitedBy |-> "none", stages |-> NoStages, emailCalls |-> 0, sendMailCalls |-> 0,
   transportError |-> "", mailVolume |-> <<>>, responses |-> 0, resp |-> NoResponse]

\* validateQuotePayload has not been called
NotChecked ==
  [done |-> FALSE, threw |-> FALSE, valid |-> FALSE, errors |-> <<>>,
   sanitized |-> NoSanitized]

NoQuotes == [since |-> 0, n |-> 0]

NoWindow == [since |-> 0, reached |-> 0, admitted |-> 0, rejected |-> 0, statuses |-> {}]

\* the 60 seconds that began at w.since are still running at time tnow
Running(w, count, tnow) == count > 0 /\ tnow < w.since + quoteLimiter.windowMs

Init ==
  /\ now = 0
  /\ env \in Environments
  /\ workload \in Workloads
  /\ issued = 0
  /\ running = 0
  /\ slot = [s \in Slots |-> IdleRequest]
  /\ sent = IdleRequest
  /\ apiStore = <<>>
  /\ quoteStore = <<>>
  /\ onlyQuote = [c \in Clients |-> TRUE]
  /\ sentQuotes = [c \in Clients |-> NoQuotes]
  /\ quoteWindow = [c \in Clients |-> NoWindow]
  /\ spamAnswers = {}
  /\ raw = EmptyBody
  /\ checked = NotChecked

\* res.status(..).json(..): request r is answered with resp
Answered(r, resp) ==
  [r EXCEPT !.pc = "done", !.resp = resp, !.responses = @ + 1]

\* the response of request r is finished: both limiters see its status
Finish(s, r, aStore, qStore) ==
  /\ sent' = r
  /\ slot' = [slot EXCEPT ![s] = IdleRequest]
  /\ running' = 0
  /\ apiStore' = IF r.apiHits > 0
                 THEN AfterResponse(apiLimiter, aStore, r.client, r.resp.status)
                 ELSE aStore
  /\ quoteStore' = IF r.quoteHits > 0
                   THEN AfterResponse(quoteLimiter, qStore, r.client, r.resp.status)
                   ELSE qStore

\* quoteWindow once request r, let through by quoteLimiter, is answered
Recorded(r) ==
  LET w == quoteWindow[r.client] IN
  IF Running(w, w.reached, now) /\ w.since = r.window
  THEN [quoteWindow EXCEPT ![r.client].statuses = @ \cup {r.resp.status}]
  ELSE quoteWindow

\* a request of client c for url reaches the server; requests in flight
\* take the free slot of least index
Arrive(s, c, url) ==
  /\ running = 0
  /\ slot[s].pc = "idle"
  /\ \A t \in Slots : t < s => slot[t].pc # "idle"
  /\ c \in workload.clients
  /\ url \in workload.urls
  /\ issued < workload.requests
  /\ issued' = issued + 1
  /\ running' = s
  /\ LET q  == sentQuotes[c]
         q2 == IF url # "/quote" THEN q
               ELSE IF Running(q, q.n, now) THEN [q EXCEPT !.n = @ + 1]
               ELSE [since |-> now, n |-> 1]
     IN /\ sentQuotes' = [sentQuotes EXCEPT ![c] = q2]
        /\ slot' = [slot EXCEPT ![s] =
                      [IdleRequest EXCEPT !.pc = "health", !.client = c, !.url = url,
                                          !.ordinal = IF url = "/quote" THEN q2.n ELSE 0]]
  /\ onlyQuote' = [onlyQuote EXCEPT ![c] = @ /\ url = "/quote"]
  /\ sent' = IdleRequest
  /\ UNCHANGED <<raw, checked, now, env, workload, apiStore, quoteStore, quoteWindow, spamAnswers>>

\* Health if the health route were mounted behind the general limiter
HealthBehindLimiter(s) ==
  /\ running = s
  /\ slot[s].pc = "health"
  /\ IF slot[s].url = "/health"
     THEN LET store == StoreIncrement(apiStore, slot[s].client, now, apiLimiter.windowMs)
              hits  == store[slot[s].client].totalHits
              r2    == [slot[s] EXCEPT !.apiHits = hits]
          IN IF OverLimit(apiLimiter, hits)
             THEN Finish(s, Answered([r2 EXCEPT !.limitedBy = "api"],
                                     TooManyResponse(apiLimiter)),
                         store, quoteStore)
             ELSE Finish(s, Answered(r2, HealthResponse), store, quoteStore)
     ELSE /\ slot' = [slot EXCEPT ![s].pc = "apiLimiter"]
          /\ sent' = IdleRequest
          /\ UNCHANGED <<running, apiStore, quoteStore>>
  /\ UNCHANGED <<raw, checked, now, env, workload, issued, onlyQuote, sentQuotes, quoteWindow, spamAnswers>>

\* app.get('/api/health'), mounted before the limiters
Health(s) ==
  /\ running = s
  /\ slot[s].pc = "health"
  /\ IF slot[s].url = "/health"
     THEN Finish(s, Answered(slot[s], HealthResponse), apiStore, quoteStore)
     ELSE /\ slot' = [slot EXCEPT ![s].pc = "apiLimiter"]
          /\ sent' = IdleRequest
          /\ UNCHANGED <<running, apiStore, quoteStore>>
  /\ UNCHANGED <<raw, checked, now, env, workload, issued, onlyQuote, sentQuotes, quoteWindow, spamAnswers>>

\* app.use('/api/', apiLimiter)
ApiLimiter(s) ==
  /\ running = s
  /\ slot[s].pc = "apiLimiter"
  /\ LET r == slot[s] IN
     IF apiLimiterSkips(r.url)
     THEN /\ slot' = [slot EXCEPT ![s].pc = "route"]
          /\ sent' = IdleRequest
          /\ UNCHANGED <<running, apiStore, quoteStore>>
     ELSE LET store == StoreIncrement(apiStore, r.client, now, apiLimiter.windowMs)
              hits  == store[r.client].totalHits
              r2    == [r EXCEPT !.apiHits = hits]
          IN IF OverLimit(apiLimiter, hits)
             THEN Finish(s, Answered([r2 EXCEPT !.limitedBy = "api"],
                                     TooManyResponse(apiLimiter)),
                         store, quoteStore)
             ELSE /\ slot' = [slot EXCEPT ![s] = [r2 EXCEPT !.pc = "route"]]
                  /\ apiStore' = store
                  /\ sent' = IdleRequest
                  /\ UNCHANGED <<running, quoteStore>>
  /\ UNCHANGED <<raw, checked, now, env, workload, issued, onlyQuote, sentQuotes, quoteWindow, spamAnswers>>

\* app.use('/api/*'): no route matched
NotFound(s) ==
  /\ running = s
  /\ slot[s].pc = "route"
  /\ slot[s].url # "/quote"
  /\ Finish(s, Answered(slot[s], NotFoundResponse), apiStore, quoteStore)
  /\ UNCHANGED <<raw, checked, now, env, workload, issued, onlyQuote, sentQuotes, quoteWindow, spamAnswers>>

\* quoteWindow of client c once one more request reached quoteLimiter
Reached(c, over) ==
  LET w == quoteWindow[c] IN
  IF Running(w, w.reached, now)
  THEN [w EXCEPT !.reached  = @ + 1,
                 !.admitted = IF over THEN @ ELSE @ + 1,
                 !.rejected = IF over THEN @ + 1 ELSE @]
  ELSE [since |-> now, reached |-> 1,
        admitted |-> IF over THEN 0 ELSE 1,
        rejected |-> IF over THEN 1 ELSE 0, statuses |-> {}]

\* QuoteLimiter if the limiter marked a request over the limit and still
\* passed it on to the handler
QuoteLimiterPassing(s) ==
  /\ running = s
  /\ slot[s].pc = "route"
  /\ slot[s].url = "/quote"
  /\ LET r     == slot[s]
         store == StoreIncrement(quoteStore, r.client, now, quoteLimiter.windowMs)
         hits  == store[r.client].totalHits
         over  == OverLimit(quoteLimiter, hits)
         w     == quoteWindow[r.client]
         w2    == Reached(r.client, over)
     IN /\ quoteWindow' = [quoteWindow EXCEPT ![r.client] = w2]
        /\ slot' = [slot EXCEPT ![s] =
                      [r EXCEPT !.pc = "handler", !.quoteHits = hits,
                                !.window = w2.since, !.position = w2.reached,
                                !.after429 = w2.reached = 1 /\ w.rejected > 0,
                                !.limitedBy = IF over THEN "quote" ELSE "none"]]
        /\ quoteStore' = store
        /\ sent' = IdleRequest
  /\ UNCHANGED <<raw, checked, now, env, workload, issued, running, apiStore, onlyQuote, sentQuotes, spamAnswers>>

\* app.post('/api/quote', quoteLimiter, ...)
QuoteLimiter(s) ==
  /\ running = s
  /\ slot[s].pc = "route"
  /\ slot[s].url = "/quote"
  /\ LET r     == slot[s]
         store == StoreIncrement(quoteStore, r.client, now, quoteLimiter.windowMs)
         hits  == store[r.client].totalHits
         over  == OverLimit(quoteLimiter, hits)
         w     == quoteWindow[r.client]
         w2    == Reached(r.client, over)
         r2    == [r EXCEPT !.quoteHits = hits, !.window = w2.since,
                            !.position = w2.reached,
                            !.after429 = w2.reached = 1 /\ w.rejected > 0]
     IN /\ quoteWindow' = [quoteWindow EXCEPT ![r.client] = w2]
        /\ IF over
           THEN Finish(s, Answered([r2 EXCEPT !.limitedBy = "quote"],
                                   TooManyResponse(quoteLimiter)),
                       apiStore, store)
           ELSE /\ slot' = [slot EXCEPT ![s] = [r2 EXCEPT !.pc = "handler"]]
                /\ quoteStore' = store
                /\ sent' = IdleRequest
                /\ UNCHANGED <<running, apiStore>>
  /\ UNCHANGED <<raw, checked, now, env, workload, issued, onlyQuote, sentQuotes, spamAnswers>>

\* data[field] of a record of strings: undefined when data has no such field
Property(data, field) == IF field \in DOMAIN data THEN JSeq(data[field]) ELSE JUndef

\* buildEmailContent(data): the subject, and the value the text body gives
\* on its line "Estimated Weekly Deliveries:"
buildEmailContent(data) ==
  [subject    |-> Chars("New Delivery Quote Request ") \o <<EmDash, " ">>
                  \o data.pharmacy_name,
   deliveries |-> JOr(Property(data, "monthly_scripts"), JStr("Not specified")).s]

\* mailerService.sendQuoteEmail called for request r: in dry-run mode it
\* returns at once, without a transporter it throws at once, otherwise it
\* awaits transporter.sendMail
sendQuoteEmail(r) ==
  LET called == [r EXCEPT !.emailCalls = @ + 1] IN
  IF env.DRY_RUN
  THEN [outcome |-> "resolved", request |-> called]
  ELSE IF ~env.transporter
  THEN [outcome |-> "rejected",
        request |-> [called EXCEPT !.transportError = NotInitialized]]
  ELSE [outcome |-> "pending",
        request |-> [called EXCEPT
                       !.sendMailCalls = @ + 1,
                       !.mailVolume =
                          buildEmailContent(ValidationOf[r.pid].sanitized).deliveries]]

\* the handler answered request r because the honeypot safety net or a
\* content heuristic of detectSpam took its body for spam
RejectedAsSpam(r) ==
  /\ r.stages.next = "respond"
  /\ \/ HoneypotHit(Payloads[r.pid])
     \/ r.stages.ranSpam /\ Len(r.stages.spamIndicators) > 0

\* the handler of request r has reached its answer or the email send
\* (r.stages); an email send that does not settle at once suspends it
Handled(s, r, mail) ==
  IF r.stages.next = "send" /\ mail.outcome = "pending"
  THEN /\ slot' = [slot EXCEPT ![s] = [mail.request EXCEPT !.pc = "awaitEmail"]]
       /\ running' = 0
       /\ sent' = IdleRequest
       /\ UNCHANGED <<apiStore, quoteStore, quoteWindow, spamAnswers>>
  ELSE LET done == IF r.stages.next = "respond" THEN Answered(r, r.stages.resp)
                   ELSE IF mail.outcome = "resolved"
                   THEN Answered(mail.request, SuccessResponse)
                   ELSE Answered(mail.request,
                                 InternalErrorResponse(mail.request.transportError))
       IN /\ Finish(s, done, apiStore, quoteStore)
          /\ quoteWindow' = Recorded(done)
          /\ spamAnswers' = IF RejectedAsSpam(done)
                            THEN spamAnswers \cup {done.resp}
                            ELSE spamAnswers

\* request r with the body it carries and what the handler makes of it
WithBody(r, pid, kind, stages) ==
  [r EXCEPT !.pid = pid, !.kind = kind, !.stages = stages]

\* the handler of POST /api/quote reads the body and runs up to its answer
\* or up to an email send that does not settle at once.  No middleware
\* reads the body before the handler, so it is drawn here.
QuoteHandler(s, pid, kind) ==
  /\ running = s
  /\ slot[s].pc = "handler"
  /\ pid \in workload.pids
  /\ kind \in workload.kinds
  /\ Handled(s, WithBody(slot[s], pid, kind,
                         quoteHandler(pid, RequestBody(pid, kind, now), now)),
             sendQuoteEmail(WithBody(slot[s], pid, kind,
                                     quoteHandler(pid, RequestBody(pid, kind, now), now))))
  /\ UNCHANGED <<raw, checked, now, env, workload, issued, onlyQuote, sentQuotes>>

\* EmailSent if the handler, resumed after the send, ended without answering
EmailSentSilently(s) ==
  /\ running = 0
  /\ slot[s].pc = "awaitEmail"
  /\ Finish(s, [slot[s] EXCEPT !.pc = "done"], apiStore, quoteStore)
  /\ quoteWindow' = quoteWindow
  /\ UNCHANGED <<raw, checked, now, env, workload, issued, onlyQuote, sentQuotes, spamAnswers>>

\* transporter.sendMail resolved: the handler resumes and answers 200
EmailSent(s) ==
  /\ running = 0
  /\ slot[s].pc = "awaitEmail"
  /\ Finish(s, Answered(slot[s], SuccessResponse), apiStore, quoteStore)
  /\ quoteWindow' = Recorded(Answered(slot[s], SuccessResponse))
  /\ UNCHANGED <<raw, checked, now, env, workload, issued, onlyQuote, sentQuotes, spamAnswers>>

\* what sendQuoteEmail throws when transporter.sendMail fails with message
DeliveryError(message) == <<"Email delivery failed: ", message>>

\* EmailFailed if a failed send were tried once more before giving up
EmailFailedRetry(s, message) ==
  /\ running = 0
  /\ slot[s].pc = "awaitEmail"
  /\ IF slot[s].emailCalls < 2
     THEN /\ slot' = [slot EXCEPT ![s].emailCalls = @ + 1, ![s].sendMailCalls = @ + 1]
          /\ sent' = IdleRequest
          /\ UNCHANGED <<running, apiStore, quoteStore, quoteWindow>>
     ELSE LET r == Answered([slot[s] EXCEPT !.transportError = message],
                            InternalErrorResponse(DeliveryError(message)))
          IN /\ Finish(s, r, apiStore, quoteStore)
             /\ quoteWindow' = Recorded(r)
  /\ UNCHANGED <<raw, checked, now, env, workload, issued, onlyQuote, sentQuotes, spamAnswers>>

\* transporter.sendMail rejected: sendQuoteEmail rethrows, the handler's
\* catch block answers
EmailFailed(s, message) ==
  /\ running = 0
  /\ slot[s].pc = "awaitEmail"
  /\ LET r == Answered([slot[s] EXCEPT !.transportError = message],
                       InternalErrorResponse(DeliveryError(message)))
     IN /\ Finish(s, r, apiStore, quoteStore)
        /\ quoteWindow' = Recorded(r)
  /\ UNCHANGED <<raw, checked, now, env, workload, issued, onlyQuote, sentQuotes, spamAnswers>>

\* time passes while the event loop is idle
Tick ==
  /\ running = 0
  /\ now < workload.ticks * TickMs
  /\ now' = now + TickMs
  /\ sent' = IdleRequest
  /\ UNCHANGED <<raw, checked, env, workload, issued, running, slot, apiStore, quoteStore,
                 onlyQuote, sentQuotes, quoteWindow, spamAnswers>>

Next ==
  \/ \E s \in Slots, c \in Clients, url \in Urls : Arrive(s, c, url)
  \/ \E s \in Slots : Health(s)
  \/ \E s \in Slots : ApiLimiter(s)
  \/ \E s \in Slots : NotFound(s)
  \/ \E s \in Slots : QuoteLimiter(s)
  \/ \E s \in Slots, pid \in PayloadIds, kind \in SubmissionKinds : QuoteHandler(s, pid, kind)
  \/ \E s \in Slots : EmailSent(s)
  \/ \E s \in Slots, message \in TransportErrors : EmailFailed(s, message)
  \/ Tick

Spec == Init /\ [][Next]_vars


\* the server's own steps are taken when they are enabled; nothing obliges
\* the mail transport to settle a send
ServerStep ==
  \E s \in Slots :
    \/ Health(s)
    \/ ApiLimiter(s)
    \/ NotFound(s)
    \/ QuoteLimiter(s)
    \/ \E pid \in PayloadIds, kind \in SubmissionKinds : QuoteHandler(s, pid, kind)

FairSpec == Spec /\ WF_vars(ServerStep)

(***************************************************************************)
(* validateQuotePayload on its own: a raw submission maps field names to   *)
(* strings and may miss keys.  The submissions drawn vary the required     *)
(* fields together, and the honeypot, the message and the volume one at a  *)
(* time.                                                                   *)
(***************************************************************************)
PharmacyNames ==
  {JUndef, JStr(""), JStr("<b></b>"), JStr("Test Pharmacy"), JStr("  <i>Rx</i> &amp; Co ")}

ContactPersons == {JUndef, JStr(" &nbsp; "), JStr("John Doe")}

Phones ==
  {JUndef, JStr("123"), JStr("(313) 333-2133"), JStr("+13133332133"),
   JStr("(113) 333-2133"), JStr("313-133-2133"), JStr("1<313>3332133")}

\* phone numbers in the formats visitors type, same digits in several of them
PhoneFormats ==
  {JStr("313-333-2133"), JStr("3133332133"), JStr("313.333.2133"),
   JStr("+1 (313) 333-2133"), JStr("phone: 313 333 2133"),
   JStr("(013) 333-2133"), JStr("0133332133"), JStr("313-033-2133"),
   JStr("1133332133"), JStr("313.133.2133"), JStr("3131332133"),
   JStr("(911) 333-2133"), JStr("9113332133"), JStr("313-411-2133"),
   JStr("1-800-411-2133"), JStr("313-333-2133 x5"), JStr("333-2133"),
   JStr("+1 (113) 333-2133"), JStr("2-313-333-2133"), JStr("")}

Emails ==
  {JUndef, JStr("invalid-email-format"), JStr("test@testpharmacy.com"),
   JStr("a.b+c@sub.example-rx.org"), JStr("user@-bad.com")}

\* addresses around each rule of emailRegex and around the length cap
EmailShapes ==
  {JStr("user@example.com"), JStr("not-an-email"), JStr("user@localhost"),
   JStr("o'brien+rx@mail.example.co"), JStr("a@b@c.com"), JStr("@example.com"),
   JStr("user@"), JStr("@"), JStr(""), JStr("user name@example.com"),
   JStr("user@exa_mple.com"), JStr("user@example-.com"), JStr("user@a..b"),
   JStr("user@example.com."), JStr("user@.example.com"), JStr("us@er@"),
   JSeq(Chars("u@") \o Repeat("a", MaxLabelLength) \o Chars(".com")),
   JSeq(Chars("u@") \o Repeat("a", MaxLabelLength + 1) \o Chars(".com")),
   JSeq(Chars("u@x.a") \o Repeat("-", MaxLabelLength - 2) \o Chars("a.org")),
   JSeq(Chars("u@x.a") \o Repeat("-", MaxLabelLength - 1) \o Chars("a.org")),
   JSeq(Repeat("a", MaxEmailLength - 12) \o Chars("@example.com")),
   JSeq(Repeat("a", MaxEmailLength - 11) \o Chars("@example.com")),
   JSeq(Repeat("a", MaxEmailLength + 1))}

Honeypots ==
  {JStr("   "), JStr("https://"), JStr("buy-cheap-pills-now"), JStr("abc"),
   JStr("abcdefghi"), JStr("abcdefghij"), JStr("   spam   "),
   JStr("  WWW.Best-Pills.biz  "), JStr("cheap pills at Example.COM today"),
   JStr("https://spam-site.com"), JStr("LOCALHOST")}

ScriptTag == Chars("<script>alert(1)</script>")

Messages ==
  {JUndef, JStr(""),
   JSeq(Repeat("a", MaxMessageLength - 1)), JSeq(Repeat("a", MaxMessageLength)),
   JSeq(Repeat("a", MaxMessageLength + 1)),
   JSeq(ScriptTag), JSeq(Chars("Hello ") \o ScriptTag \o Chars(" world")),
   JSeq(Chars("<b>bold</b> &amp; ") \o ScriptTag \o Chars("tail")),
   JSeq(ScriptTag \o ScriptTag),
   JSeq(Chars("if a > b then ") \o ScriptTag),
   JSeq(ScriptTag \o Chars(" we <3 pharmacies")),
   JSeq(Repeat("b", MaxMessageLength - Len(ScriptTag)) \o ScriptTag)}

\* the selections of the volume field, each with its modern token and the
\* other spellings the form has sent for it
VolumeSelections ==
  {[token |-> Chars("lt25"),
    encodings |-> {Chars("lt25"), Chars("Less than 25"), Chars("less than 25"),
                   Chars(" LESS  THAN 25 ")}],
   [token |-> Chars("25to125"),
    encodings |-> {Chars("25to125"), Chars("25-125"), Chars("25 - 125"),
                   Chars("25") \o <<EnDash>> \o Chars("125"),
                   Chars("25 ") \o <<EmDash>> \o Chars(" 125"),
                   Chars("25 to 125"), Chars("25 TO 125"), Chars(" 25to125 ")}],
   [token |-> Chars("gt125"),
    encodings |-> {Chars("gt125"), Chars("More than 125"), Chars("more than 125"),
                   Chars("MORE THAN  125")}]}

VolumeEncodings == UNION {sel.encodings : sel \in VolumeSelections}

\* values of the volume field that are neither a modern token nor a legacy
\* display string, nor of the shorthand shapes NtoM, ltN, gtN
UnrecognizedVolumes ==
  {Chars("unsure"), Chars("a lot"), Chars("500+"), Chars("weekly"),
   Chars("100") \o <<EnDash>> \o Chars("500")}

RawSubmissions ==
  {[ValidBody EXCEPT !.pharmacy_name = n, !.contact_person = c, !.phone = ph, !.email = e] :
     n \in PharmacyNames, c \in ContactPersons, ph \in Phones, e \in Emails}
  \cup {[ValidBody EXCEPT !.company_website = h, !.pharmacy_name = n] :
          h \in Honeypots, n \in {JUndef, JStr("Test Pharmacy")}}
  \cup {[ValidBody EXCEPT !.message = m] : m \in Messages}
  \cup {[ValidBody EXCEPT !.weekly_scripts = JSeq(w)] : w \in VolumeEncodings}
  \cup {[ValidBody EXCEPT !.weekly_scripts_display = JSeq(w)] : w \in VolumeEncodings}
  \cup {[ValidBody EXCEPT !.weekly_scripts = JSeq(w)] : w \in UnrecognizedVolumes}
  \cup {[ValidBody EXCEPT !.phone = ph] : ph \in PhoneFormats}
  \cup {[ValidBody EXCEPT !.email = e] : e \in EmailShapes}

ValidatorInit ==
  /\ now = 0
  /\ env = [DRY_RUN |-> TRUE, transporter |-> TRUE]
  /\ workload = CHOOSE w \in Workloads : w.name = "payloads"
  /\ issued = 0
  /\ running = 0
  /\ slot = [s \in Slots |-> IdleRequest]
  /\ sent = IdleRequest
  /\ apiStore = <<>>
  /\ quoteStore = <<>>
  /\ onlyQuote = [c \in Clients |-> TRUE]
  /\ sentQuotes = [c \in Clients |-> NoQuotes]
  /\ quoteWindow = [c \in Clients |-> NoWindow]
  /\ spamAnswers = {}
  /\ raw \in RawSubmissions
  /\ checked = NotChecked

\* what validateQuotePayload returned
Returned(validation) ==
  [done |-> TRUE, threw |-> validation.threw, valid |-> validation.valid,
   errors |-> validation.errors, sanitized |-> validation.sanitized]

\* validateQuotePayload(raw) is called and returns
Validate ==
  /\ ~checked.done
  /\ checked' = Returned(validateQuotePayload(raw))
  /\ UNCHANGED <<raw, now, env, workload, issued, running, slot, sent, apiStore,
                 quoteStore, onlyQuote, sentQuotes, quoteWindow, spamAnswers>>

ValidatorSpec == ValidatorInit /\ [][Validate]_vars

(***************************************************************************)
(* Properties                                                              *)
(***************************************************************************)
\* the requests in flight and the one just answered
Requests == {slot[s] : s \in Slots} \cup {sent}

\* the request just answered was a quote request
QuoteAnswered == sent.pc = "done" /\ sent.url = "/quote"

\* C1: for a client that sends only quote requests, of the quote requests it
\* sends within one window (limits as rateLimit.js sets them by default) the
\* first three are not answered 429 and the fourth, fifth and sixth are
\* each answered 429.
C1_FirstThreeThenBlocked ==
  (QuoteAnswered /\ onlyQuote[sent.client])
    => /\ sent.ordinal \in 1..3 => sent.resp.status # 429
       /\ sent.ordinal \in 4..6 => sent.resp.status = 429

C1_SixthBlocked ==
  /\ QuoteAnswered
  /\ onlyQuote[sent.client]
  /\ sent.ordinal = 6
  /\ sent.resp.status = 429
  /\ quoteWindow[sent.client].admitted = 3

\* the client filled the form in less than the dwell time
SubmittedTooSoon(kind) == kind.k = "ago" /\ kind.age < 2000

\* C2: the email collaborator is called for a request only if both limiters
\* let it through, validateQuotePayload found its body valid, detectSpam
\* found nothing in the sanitized record and the dwell-time check did not
\* reject it.
C2_EmailOnlyAfterAllStages ==
  \A r \in Requests :
    r.emailCalls > 0 =>
      /\ r.limitedBy = "none"
      /\ r.position \in 1..3
      /\ r.stages.ranValidator /\ r.stages.ranSpam
      /\ ~ValidationOf[r.pid].threw
      /\ ValidationOf[r.pid].valid
      /\ SpamOf[r.pid] = <<>>
      /\ ~SubmittedTooSoon(r.kind)

C2_EmailAtDwellBoundary ==
  /\ QuoteAnswered
  /\ sent.emailCalls = 1
  /\ sent.stages.ranDwell
  /\ sent.kind = [k |-> "ago", age |-> 2000]
  /\ sent.resp.status = 200

\* C3: a quote request over the rate limit is answered 429 by the limiter:
\* its body is never read, the validator, the spam heuristics and the
\* dwell-time check are never run for it and no email is sent for it.
C3_LimitedBeforeValidation ==
  \A r \in Requests :
    (r.limitedBy # "none" \/ r.position > 3) =>
      /\ r.pc = "done"
      /\ r.resp.status = 429
      /\ r.pid = 0
      /\ r.stages = NoStages
      /\ r.emailCalls = 0

C3_QuoteLimited ==
  /\ QuoteAnswered
  /\ sent.limitedBy = "quote"
  /\ sent.position = 4
  /\ sent.resp.status = 429
  /\ sent.stages = NoStages

\* C4: the quote limiter counts a request whatever its answer: a request
\* answered 200, 400 or 500 stays counted while its window lasts, and a
\* request that reaches the limiter after three others of the window is
\* answered 429 whatever those were answered.
C4_EveryOutcomeCounted ==
  QuoteAnswered =>
    LET w == quoteWindow[sent.client] IN
    /\ sent.position > 3 => sent.resp.status = 429
    /\ (sent.position > 0 /\ Running(w, w.reached, now) /\ w.since = sent.window)
         => quoteStore[sent.client].totalHits >= sent.position

C4_FourthAfterMixedOutcomes ==
  /\ QuoteAnswered
  /\ sent.position = 4
  /\ sent.resp.status = 429
  /\ quoteWindow[sent.client].statuses = {200, 400, 500}

\* C5: the counter of a client is updated atomically: whatever the
\* interleaving of its requests, also with requests suspended in the email
\* send, at most three requests of a window are let through and the counter
\* equals the number of requests that reached the limiter in the window.
C5_AtomicCounter ==
  \A c \in Clients :
    LET w == quoteWindow[c] IN
    /\ w.admitted <= 3
    /\ Running(w, w.reached, now) =>
         /\ c \in DOMAIN quoteStore
         /\ quoteStore[c].totalHits = w.reached
         /\ quoteStore[c].resetTime = w.since + 60000

C5_RejectedWhileSuspended ==
  /\ QuoteAnswered
  /\ sent.limitedBy = "quote"
  /\ quoteWindow[sent.client].admitted = 3
  /\ \E s \in Slots : /\ slot[s].pc = "awaitEmail"
                      /\ slot[s].client = sent.client
                      /\ slot[s].window = sent.window
                      /\ slot[s].position < sent.position

\* C6: the limiter state of a client exists from its first request on, and
\* the first quote request to reach the quote limiter after the 60 seconds
\* of a window is let through with a count of 1, also when the client had
\* been answered 429 in the window before.
C6_WindowResets ==
  /\ \A c \in Clients : c \in DOMAIN quoteStore <=> quoteWindow[c].reached > 0
  /\ \A r \in Requests :
       r.position = 1 => r.quoteHits = 1 /\ r.limitedBy # "quote"

C6_AdmittedAfterWindow ==
  /\ QuoteAnswered
  /\ sent.position = 1
  /\ sent.after429
  /\ sent.resp.status = 200

\* C7: every quote request let through by the limiters is answered in the
\* end, also when the mail transport never settles the send.
C7_AdmittedEventuallyAnswered ==
  \A s \in Slots : (slot[s].pc \in {"handler", "awaitEmail"}) ~> (slot[s].pc = "idle")

\* C8: sendQuoteEmail is called at most once for a request and every request
\* is answered at most once: a failed send is not tried again and is
\* reported to the client in the one answer of the request.
C8_OneSendOneAnswer ==
  \A r \in Requests :
    /\ r.emailCalls <= 1
    /\ r.sendMailCalls <= 1
    /\ r.responses <= 1
    /\ r.pc = "done" => r.responses = 1
    /\ r.transportError # "" =>
         /\ r.pc = "done"
         /\ r.emailCalls = 1
         /\ r.responses = 1
         /\ r.resp.status = 500

C8_FailureReportedOnce ==
  /\ QuoteAnswered
  /\ sent.transportError \in TransportErrors
  /\ sent.sendMailCalls = 1
  /\ sent.responses = 1
  /\ sent.resp.status = 500

\* a required field is absent or fails its format check, or the message is
\* over the length limit
Malformed(payload) ==
  RequiredFieldErrors(payload) # <<>> \/ MessageTooLong(payload)

\* C9: every quote submission with malformed input that the limiters let
\* through is answered 400 with success = false and with details equal to
\* the full list of errors of validateQuotePayload.
C9_MalformedAnswered400WithDetails ==
  (QuoteAnswered /\ sent.limitedBy = "none" /\ Malformed(Payloads[sent.pid])) =>
    /\ sent.resp.status = 400
    /\ sent.resp.success = "false"
    /\ sent.resp.hasDetails
    /\ sent.resp.details = ValidationOf[sent.pid].errors

ReasonStrings ==
  {"Spam detection triggered", "Too many links in message", "Suspicious content detected"}

\* C11: a submission rejected as spam, by the honeypot or by a content
\* heuristic, gets a response that does not tell which: all such responses
\* have the same status and the same body, and none carries a reason string
\* of the validator or of a heuristic.
C11_SpamRejectionsIndistinguishable ==
  /\ Cardinality(spamAnswers) <= 1
  /\ \A a \in spamAnswers :
       /\ a.error \notin ReasonStrings
       /\ \A i \in 1..Len(a.details) : a.details[i] \notin ReasonStrings

\* payload pid is fully valid and not spam: it has a body, a blank honeypot,
\* no validation error and no spam indicator
ValidNonSpam(pid) ==
  /\ ~BodyIsEmpty(Payloads[pid])
  /\ ~HoneypotHit(Payloads[pid])
  /\ ~ValidationOf[pid].threw
  /\ ValidationOf[pid].valid
  /\ SpamOf[pid] = <<>>

\* C12: a fully valid, non-spam quote submission within quota whose
\* submission_time lies at least 2000 ms in the past (3000 ms, say) is not
\* rejected: the email send is called for it and it is answered 200 when the
\* send succeeds; the same payload with a submission_time less than 2000 ms
\* in the past (500 ms, say) is answered 400 as too fast and no email is sent.
C12_DwellDecidesValidSubmission ==
  \A r \in Requests :
    (r.pid # 0 /\ r.limitedBy = "none" /\ ValidNonSpam(r.pid) /\ r.kind.k = "ago") =>
      IF r.kind.age >= 2000
      THEN /\ r.emailCalls = 1
           /\ Len(r.stages.validation.errors) = 0
           /\ r.pc = "done" => r.resp.status \in {200, 500}
           /\ (r.pc = "done" /\ r.transportError = "") => r.resp = SuccessResponse
      ELSE /\ r.pc = "done"
           /\ r.resp = TooFastResponse
           /\ r.resp.status = 400
           /\ r.emailCalls = 0

C12_TooFastWhileOlderProceeds ==
  /\ QuoteAnswered
  /\ sent.pid = 1
  /\ sent.kind = [k |-> "ago", age |-> 500]
  /\ sent.resp.status = 400
  /\ sent.resp.error = "Please take your time filling out the form"
  /\ sent.emailCalls = 0
  /\ \E s \in Slots : /\ slot[s].pc = "awaitEmail"
                      /\ slot[s].pid = 1
                      /\ slot[s].kind = [k |-> "ago", age |-> 3000]
                      /\ slot[s].sendMailCalls = 1

\* the payloads the body of request r may be: the one the handler read, or
\* any payload of the workload when the body was never read
BodiesOf(r) == IF r.pid # 0 THEN {r.pid} ELSE workload.pids

\* the honeypot field of payload is a non-blank string
HoneypotFilled(payload) ==
  /\ payload.company_website.t = "str"
  /\ \E i \in 1..Len(payload.company_website.s) :
        payload.company_website.s[i] \notin WhiteSpace

\* C13 as stated: every POST to the quote endpoint whose honeypot field
\* company_website is a non-blank string is answered 400 with success =
\* false, and the email send is never reached for it.
C13_HoneypotAlways400 ==
  \A r \in Requests : \A pid \in BodiesOf(r) :
    (r.url = "/quote" /\ HoneypotFilled(Payloads[pid])) =>
      /\ r.emailCalls = 0
      /\ r.pc = "done" => (r.resp.status = 400 /\ r.resp.success = "false")

\* C13 as amended: every POST to the quote endpoint that both rate limiters
\* let through and whose honeypot field company_website is a non-blank
\* string is answered 400 with success = false, and the email send is never
\* reached for it.
C13_HoneypotAnswered400WithinQuota ==
  \A r \in Requests : \A pid \in BodiesOf(r) :
    (r.url = "/quote" /\ r.limitedBy = "none" /\ HoneypotFilled(Payloads[pid])) =>
      /\ r.emailCalls = 0
      /\ r.pc = "done" => (r.resp.status = 400 /\ r.resp.success = "false")

C13_HoneypotRejected ==
  /\ QuoteAnswered
  /\ sent.pid = 7
  /\ sent.limitedBy = "none"
  /\ sent.resp = HoneypotResponse
  /\ ~sent.stages.ranValidator
  /\ sent.emailCalls = 0

\* the honeypot field of payload holds what the validator takes for
\* autofill noise: a string that is not empty and whose trimmed value
\* contains an allow-listed substring or has fewer than 10 characters
BenignAutofill(payload) ==
  /\ IsString(payload.company_website)
  /\ Truthy(payload.company_website)
  /\ isLikelyAutofill(trim(payload.company_website.s))

\* payload pid is acceptable but for its honeypot field
OtherwiseAcceptable(pid) ==
  /\ RequiredFieldErrors(Payloads[pid]) = <<>>
  /\ ~MessageTooLong(Payloads[pid])
  /\ SpamOf[pid] = <<>>

\* C14: an otherwise acceptable quote submission whose honeypot field holds
\* benign autofill noise is not rejected by the quote endpoint: it passes
\* the honeypot handling and proceeds to the email send.
C14_AutofillNoiseNotRejected ==
  (/\ QuoteAnswered
   /\ sent.limitedBy = "none"
   /\ sent.pid # 0
   /\ BenignAutofill(Payloads[sent.pid])
   /\ OtherwiseAcceptable(sent.pid)
   /\ ~SubmittedTooSoon(sent.kind)
   /\ sent.kind.k # "text")
    => /\ sent.emailCalls = 1
       /\ sent.resp.status # 400

\* the number of times error occurs in errors
Count(errors, error) == Cardinality({i \in 1..Len(errors) : errors[i] = error})

\* C15: validateQuotePayload on a non-empty honeypot value: if the trimmed
\* value contains (whatever the case) an allow-listed autofill substring or
\* has fewer than 10 characters, no spam error is added, so a honeypot of
\* "https://" leaves an otherwise valid submission valid; otherwise exactly
\* one spam error is added, so a honeypot of "buy-cheap-pills-now" makes the
\* result invalid.
C15_HoneypotClassified ==
  (checked.done /\ raw.company_website.t = "str" /\ raw.company_website.s # <<>>) =>
    LET v      == trim(raw.company_website.s)
        benign == \/ \E allowed \in allowedAutofillValues : includes(toLowerCase(v), allowed)
                  \/ Len(v) < 10
        spam   == Count(checked.errors, "Spam detection triggered")
    IN /\ ~checked.threw
       /\ benign => spam = 0
       /\ ~benign => (spam = 1 /\ ~checked.valid)
       /\ raw = [ValidBody EXCEPT !.company_website = JStr("https://")] => checked.valid
       /\ raw.company_website = JStr("buy-cheap-pills-now") => (spam = 1 /\ ~checked.valid)

C15_SpamHoneypotInvalid ==
  /\ checked.done
  /\ raw = [ValidBody EXCEPT !.company_website = JStr("buy-cheap-pills-now")]
  /\ ~checked.valid
  /\ checked.errors = <<"Spam detection triggered">>

\* C16: whenever validateQuotePayload returns valid = true, every required
\* field of the sanitized record it returns is non-empty and well-formed:
\* the sanitized pharmacy_name and contact_person are non-empty, the
\* sanitized phone satisfies isValidPhoneUS and the sanitized email
\* satisfies isValidEmail.
C16_ValidImpliesSanitizedWellFormed ==
  (checked.done /\ checked.valid) =>
    /\ checked.sanitized.pharmacy_name # <<>>
    /\ checked.sanitized.contact_person # <<>>
    /\ isValidPhoneUS(JSeq(checked.sanitized.phone))
    /\ isValidEmail(JSeq(checked.sanitized.email))

\* C17: validateQuotePayload collects the required-field errors in one pass
\* without stopping at the first: for every raw submission the error list
\* holds exactly one error for each of pharmacy name, contact person, phone
\* and email that is absent or fails its format check, and none for a
\* required field that is present and well-formed.
C17_AllRequiredErrorsCollected ==
  checked.done =>
    LET expected(bad) == IF bad THEN 1 ELSE 0 IN
    /\ Count(checked.errors, "Pharmacy name is required")
         = expected(~Truthy(raw.pharmacy_name) \/ sanitizeText(raw.pharmacy_name) = <<>>)
    /\ Count(checked.errors, "Contact person is required")
         = expected(~Truthy(raw.contact_person) \/ sanitizeText(raw.contact_person) = <<>>)
    /\ Count(checked.errors, "Valid US phone number is required")
         = expected(~Truthy(raw.phone) \/ ~isValidPhoneUS(raw.phone))
    /\ Count(checked.errors, "Valid email address is required")
         = expected(~Truthy(raw.email) \/ ~isValidEmail(raw.email))

C17_FourErrorsAtOnce ==
  /\ checked.done
  /\ raw.pharmacy_name = JStr("<b></b>")
  /\ raw.contact_person = JUndef
  /\ raw.phone = JStr("(113) 333-2133")
  /\ raw.email = JStr("user@-bad.com")
  /\ checked.errors = <<"Pharmacy name is required", "Contact person is required",
                        "Valid US phone number is required",
                        "Valid email address is required">>

\* C18: a submission whose message has exactly 2000 characters passes the
\* message-length check (no length error), and a submission whose message
\* has 2001 characters is rejected with a length error.
C18_MessageLengthBoundary ==
  (checked.done /\ raw.message.t = "str") =>
    LET tooLong == Count(checked.errors, "Message must be 2000 characters or less") IN
    /\ Len(raw.message.s) = 2000 => tooLong = 0
    /\ Len(raw.message.s) = 2001 => (tooLong = 1 /\ ~checked.valid)
    /\ Len(raw.message.s) < 2000 => tooLong = 0

C18_Accepted2000 ==
  /\ checked.done
  /\ Len(raw.message.s) = 2000
  /\ checked.valid
  /\ Len(checked.sanitized.message) = 2000

\* s holds the character c
Holds(s, c) == \E i \in 1..Len(s) : s[i] = c

\* C19 as stated: for every payload whose message field contains
\* <script>alert(1)</script>, the message of the sanitized output of
\* validateQuotePayload holds no "<" and no ">" character.
C19_ScriptMessageHasNoAngles ==
  (checked.done /\ raw.message.t = "str" /\ includes(raw.message.s, ScriptTag)) =>
    /\ ~Holds(checked.sanitized.message, "<")
    /\ ~Holds(checked.sanitized.message, ">")

\* every "<" and ">" of s lies within an occurrence of <script>alert(1)</script>
AnglesOnlyInScriptTag(s) ==
  \A i \in 1..Len(s) :
    s[i] \in {"<", ">"} =>
      \E k \in 1..i : MatchAt(s, k, ScriptTag) /\ i < k + Len(ScriptTag)

\* C19 as amended: for every payload whose message field contains
\* <script>alert(1)</script> and holds no "<" or ">" outside the occurrences
\* of it, the message of the sanitized output of validateQuotePayload holds
\* no "<" and no ">" character.
C19_ScriptTagStripped ==
  (/\ checked.done
   /\ raw.message.t = "str"
   /\ includes(raw.message.s, ScriptTag)
   /\ AnglesOnlyInScriptTag(raw.message.s)) =>
    /\ ~Holds(checked.sanitized.message, "<")
    /\ ~Holds(checked.sanitized.message, ">")

C19_ScriptInsideText ==
  /\ checked.done
  /\ raw.message.s = Chars("Hello ") \o ScriptTag \o Chars(" world")
  /\ checked.sanitized.message = Chars("Hello alert(1) world")

C21_UnrecognizedTokenEchoed ==
  (checked.done /\ raw.weekly_scripts.t = "str"
                /\ raw.weekly_scripts.s \in UnrecognizedVolumes) =>
    /\ ~checked.threw
    /\ checked.sanitized.weekly_scripts = raw.weekly_scripts.s
    /\ checked.sanitized.weekly_scripts_display = raw.weekly_scripts.s

\* C22: when a volume token is present but has no resolvable canonical
\* form, validateQuotePayload appends the invalid-volume error and the
\* result is not valid.
C22_UnresolvableVolumeFlagged ==
  (checked.done /\ raw.weekly_scripts.t = "str"
                /\ raw.weekly_scripts.s \in UnrecognizedVolumes) =>
    /\ Count(checked.errors, "Invalid weekly delivery volume selected") = 1
    /\ ~checked.valid

\* the phone number of the submission was accepted
PhoneAccepted == Count(checked.errors, "Valid US phone number is required") = 0

\* the digits of the submitted phone number, in order
PhoneDigits == SelectSeq(raw.phone.s, LAMBDA c : c \in Digits)

\* C23: isValidPhoneUS rejects every input whose digits form a 10-digit
\* string with an area code or an exchange code starting with 0 or 1; it
\* accepts (313) 333-2133, 313-333-2133, 3133332133 and +13133332133; and
\* the verdict depends only on the digits of the input: any two inputs with
\* the same digits get the same verdict, whatever the formatting characters.
C23_PhoneVerdictFromDigits ==
  (checked.done /\ raw.phone.t = "str") =>
    /\ (Len(PhoneDigits) = 10 /\ (PhoneDigits[1] \in {"0", "1"} \/ PhoneDigits[4] \in {"0", "1"}))
         => ~PhoneAccepted
    /\ raw.phone \in {JStr("(313) 333-2133"), JStr("313-333-2133"),
                      JStr("3133332133"), JStr("+13133332133")} => PhoneAccepted
    /\ \A other \in RawSubmissions :
         (other.phone.t = "str"
          /\ SelectSeq(other.phone.s, LAMBDA c : c \in Digits) = PhoneDigits)
           => (PhoneAccepted <=> isValidPhoneUS(other.phone))

C23_ExchangeStartingWithOneRejected ==
  /\ checked.done
  /\ raw.phone = JStr("313.133.2133")
  /\ ~PhoneAccepted
  /\ raw.pharmacy_name = JStr("Test Pharmacy")

\* C24: isValidPhoneUS accepts no number with an N11 area code or an N11
\* exchange code (911, 411, ...): every such 10-digit number is rejected.
C24_N11Rejected ==
  (checked.done /\ raw.phone.t = "str" /\ Len(PhoneDigits) = 10
     /\ \/ PhoneDigits[2] = "1" /\ PhoneDigits[3] = "1"
        \/ PhoneDigits[5] = "1" /\ PhoneDigits[6] = "1") =>
    ~PhoneAccepted

\* the email address of the submission was accepted
EmailAccepted == Count(checked.errors, "Valid email address is required") = 0

\* label is 1 to 63 alphanumeric-or-hyphen characters and neither starts nor
\* ends with a hyphen
WellFormedLabel(label) ==
  /\ Len(label) \in 1..63
  /\ \A i \in 1..Len(label) : label[i] \in AlphaNum \cup {"-"}
  /\ label[1] # "-"
  /\ label[Len(label)] # "-"

\* s has at most 254 characters, a single "@", a non-empty local part over
\* the allowed characters, and a domain of well-formed labels separated by dots
WellFormedEmail(s) ==
  LET ats == {i \in 1..Len(s) : s[i] = "@"}
  IN /\ Len(s) <= 254
     /\ Cardinality(ats) = 1
     /\ LET at     == CHOOSE i \in ats : TRUE
            local  == SubSeq(s, 1, at - 1)
            domain == SubSeq(s, at + 1, Len(s))
            \* the dots of the domain and the two ends of it
            cuts   == {0, Len(domain) + 1} \cup {i \in 1..Len(domain) : domain[i] = "."}
        IN /\ local # <<>>
           /\ \A i \in 1..Len(local) : local[i] \in EmailLocalChars
           /\ \A i \in cuts : \A j \in cuts :
                 (i < j /\ ~\E k \in cuts : i < k /\ k < j) =>
                   WellFormedLabel(SubSeq(domain, i + 1, j - 1))

\* C25: isValidEmail returns true exactly for the strings of at most 254
\* characters that have a non-empty local part over the allowed character
\* set, a single "@" and a domain of dot-separated labels, each of 1 to 63
\* alphanumeric-or-hyphen characters, none starting or ending with a hyphen;
\* it accepts user@example.com and rejects not-an-email and every string
\* longer than 254 characters.
C25_EmailAcceptedIffWellFormed ==
  (checked.done /\ raw.email.t = "str") =>
    /\ EmailAccepted <=> WellFormedEmail(raw.email.s)
    /\ raw.email = JStr("user@example.com") => EmailAccepted
    /\ raw.email = JStr("not-an-email") => ~EmailAccepted
    /\ Len(raw.email.s) > 254 => ~EmailAccepted

C25_LongestEmailAccepted ==
  /\ checked.done
  /\ Len(raw.email.s) = 254
  /\ EmailAccepted

\* the step belongs to a health request: the request arrives or is answered
HealthStep ==
  \/ running # 0 /\ slot[running].url = "/health"
  \/ running' # 0 /\ slot'[running'].url = "/health"

\* C26: the health endpoint bypasses rate limiting: a GET of it is answered
\* 200 with status healthy after any number of prior requests, and no step
\* of a health request changes the counters of either limiter.
C26_HealthBypassesLimiters ==
  [][HealthStep =>
       /\ apiStore' = apiStore
       /\ quoteStore' = quoteStore
       /\ running' = 0 => (sent'.pc = "done" /\ sent'.resp = HealthResponse)]_vars

C26_HealthyWhileOverBothLimits ==
  /\ sent.pc = "done"
  /\ sent.url = "/health"
  /\ sent.resp.status = 200
  /\ sent.resp.message = "healthy"
  /\ sent.client \in DOMAIN apiStore
  /\ apiStore[sent.client].totalHits > apiLimiter.max
  /\ sent.client \in DOMAIN quoteStore
  /\ quoteStore[sent.client].totalHits > quoteLimiter.max

\* the request was for an API path that matches no route
Unrouted(r) == r.url \notin {"", "/health", "/quote"}

\* C27 as stated: every request to an API path that matches no defined route
\* is answered 404 with success = false, whatever requests the same client
\* made before.
C27_UnroutedAlways404 ==
  \A r \in Requests :
    (Unrouted(r) /\ r.pc = "done") =>
      (r.resp.status = 404 /\ r.resp.success = "false")

\* C27: every request to an API path that matches no defined route, and that
\* is not beyond the fifth request of its client the general limiter has
\* counted in the running minute, is answered 404 with success = false,
\* whatever requests the same client made before.
C27_UnroutedAnswered404WithinQuota ==
  \A r \in Requests :
    (Unrouted(r) /\ r.pc = "done" /\ r.apiHits <= 5) =>
      (r.resp.status = 404 /\ r.resp.success = "false")

C27_FifthCountedRequestNotFound ==
  /\ sent.pc = "done"
  /\ sent.url = "/nonexistent"
  /\ sent.apiHits = 5
  /\ sent.resp.status = 404
  /\ sent.resp.success = "false"
  /\ sent.client \in DOMAIN quoteStore

\* C28: every request to the quote endpoint is answered exactly once, with a
\* status among 200, 400, 429 and 500: no request is answered twice, a
\* request that has left the server was answered, and once the email call of
\* a request has returned or thrown the request has its one answer.
C28_QuoteAnsweredExactlyOnce ==
  \A r \in Requests :
    r.url = "/quote" =>
      /\ r.responses \in {0, 1}
      /\ r.responses = 1 <=> r.pc = "done"
      /\ r.responses = 1 => r.resp.status \in {200, 400, 429, 500}
      /\ (r.emailCalls > 0 /\ r.pc # "awaitEmail") => r.responses = 1

C28_AnsweredOnceAfterSendThrew ==
  /\ QuoteAnswered
  /\ sent.emailCalls = 1
  /\ sent.transportError = NotInitialized
  /\ sent.responses = 1
  /\ sent.resp.status = 500

\* C29: the dwell-time check is applied only when submission_time is
\* supplied: a submission that omits it, or sends 0 or an empty value, is
\* never rejected as too fast and, if it passes the other stages, reaches
\* the email send.
C29_NoTimestampNoDwellCheck ==
  \A r \in Requests :
    (r.pid # 0 /\ r.kind.k \in {"absent", "zero", "empty"}) =>
      /\ ~r.stages.ranDwell
      /\ r.resp.error # "Please take your time filling out the form"
      /\ (r.limitedBy = "none" /\ ValidNonSpam(r.pid)) => r.emailCalls = 1

C29_EmptyTimestampReachesSend ==
  /\ QuoteAnswered
  /\ sent.kind.k = "empty"
  /\ ValidNonSpam(sent.pid)
  /\ sent.emailCalls = 1
  /\ sent.resp.status = 200

\* C30: for every submission that reaches the email send, the email message
\* states the volume selection, as the display string the normalizer
\* produced for it; a submission with a recognized volume selection is never
\* emailed with the placeholder "Not specified" in its place.  Stated for the
\* submissions that carry a volume selection.
C30_EmailStatesVolume ==
  \A r \in Requests :
    (r.sendMailCalls > 0 /\ Truthy(Payloads[r.pid].weekly_scripts)) =>
      /\ r.mailVolume = ValidationOf[r.pid].sanitized.weekly_scripts_display
      /\ r.mailVolume # Chars("Not specified")
====
